---- MODULE Spec2Model ----
(***************************************************************************)
(* ShipAgent desktop wrapper: the start_sidecar command of                 *)
(* src-tauri/src/main.rs.  One invocation resolves the bundled backend     *)
(* executable, spawns it and reads the child's CommandEvent stream until   *)
(* the port report "SHIPAGENT_PORT=<port>" is seen.                        *)
(*                                                                         *)
(* Text is a sequence of characters (one-character strings); byte strings  *)
(* are sequences of the same tokens plus InvalidByte, a byte that is not   *)
(* valid UTF-8.  Option values are sequences of length 0 (None) or 1       *)
(* (Some).                                                                 *)
(***************************************************************************)
EXTENDS Integers, Sequences, FiniteSets, TLC

\* Bounds of the model.
MaxEvents == 4
MaxInvocations == 2
MaxLines == 2

\* u16::MAX, the largest value of the port type.
U16Max == 65535

None == <<>>
Some(x) == <<x>>
IsSome(o) == Len(o) = 1
IsNone(o) == Len(o) = 0

----------------------------------------------------------------------------
\* Text helpers.

InvalidByte == "xFF"
ReplacementChar == "U+FFFD"

\* String::from_utf8_lossy: invalid bytes become U+FFFD.
FromUtf8Lossy(bytes) ==
  [i \in 1..Len(bytes) |-> IF bytes[i] = InvalidByte THEN ReplacementChar ELSE bytes[i]]

\* The marker literal "SHIPAGENT_PORT=".
PortPrefix == <<"S","H","I","P","A","G","E","N","T","_","P","O","R","T","=">>

\* Faulty variant of StripPrefix: leading white space is skipped before the
\* prefix is matched (trim_start().strip_prefix(..)).
StripPrefixTrimmed(text, prefix) ==
  LET t == IF Len(text) > 0 /\ text[1] = " " THEN SubSeq(text, 2, Len(text)) ELSE text IN
  IF Len(t) >= Len(prefix) /\ SubSeq(t, 1, Len(prefix)) = prefix
  THEN Some(SubSeq(t, Len(prefix) + 1, Len(t)))
  ELSE None

\* str::strip_prefix: Some(rest) when text starts with prefix, else None.
StripPrefix(text, prefix) ==
  IF Len(text) >= Len(prefix) /\ SubSeq(text, 1, Len(prefix)) = prefix
  THEN Some(SubSeq(text, Len(prefix) + 1, Len(text)))
  ELSE None

WhiteSpace == {" ", "\t", "\n", "\r"}

RECURSIVE TrimStart(_)
TrimStart(s) ==
  IF Len(s) > 0 /\ s[1] \in WhiteSpace THEN TrimStart(SubSeq(s, 2, Len(s))) ELSE s

RECURSIVE TrimEnd(_)
TrimEnd(s) ==
  IF Len(s) > 0 /\ s[Len(s)] \in WhiteSpace THEN TrimEnd(SubSeq(s, 1, Len(s) - 1)) ELSE s

\* Faulty variant of Trim: only leading white space is stripped (trim_start).
TrimStartOnly(s) == TrimStart(s)

\* str::trim: strips leading and trailing white space.
Trim(s) == TrimEnd(TrimStart(s))

DecimalDigits == <<"0","1","2","3","4","5","6","7","8","9">>

\* char::to_digit(10): the digit's value, or -1 when c is not a digit.
ToDigit(c) ==
  IF \E d \in 1..10 : DecimalDigits[d] = c
  THEN (CHOOSE d \in 1..10 : DecimalDigits[d] = c) - 1
  ELSE -1

\* Faulty variant of ParseDigits: wrapping multiply and add, the value is
\* reduced modulo 2^16.
RECURSIVE ParseDigitsWrapping(_, _)
ParseDigitsWrapping(s, acc) ==
  IF Len(s) = 0 THEN Some(acc)
  ELSE LET d == ToDigit(s[1]) IN
       IF d < 0 THEN None
       ELSE ParseDigitsWrapping(SubSeq(s, 2, Len(s)), (acc * 10 + d) % (U16Max + 1))

\* The digit loop of u16::from_str: checked multiply and checked add.
RECURSIVE ParseDigits(_, _)
ParseDigits(s, acc) ==
  IF Len(s) = 0 THEN Some(acc)
  ELSE LET d == ToDigit(s[1]) IN
       IF d < 0 THEN None
       ELSE IF acc * 10 > U16Max THEN None
       ELSE IF acc * 10 + d > U16Max THEN None
       ELSE ParseDigits(SubSeq(s, 2, Len(s)), acc * 10 + d)

\* str::parse::<u16>().ok(): an optional "+", then at least one digit.
ParseU16(s) ==
  IF Len(s) = 0 THEN None
  ELSE IF Len(s) = 1 /\ s[1] \in {"+", "-"} THEN None
  ELSE IF s[1] = "+" THEN ParseDigits(SubSeq(s, 2, Len(s)), 0)
  ELSE ParseDigits(s, 0)

\* Display of a small non-negative integer.
RECURSIVE IntToText(_)
IntToText(n) ==
  IF n < 10 THEN <<DecimalDigits[n + 1]>>
  ELSE IntToText(n \div 10) \o <<DecimalDigits[(n % 10) + 1]>>

\* {:?} of an Option<i32>.
DebugCode(code) ==
  IF IsSome(code) THEN <<"Some(">> \o IntToText(code[1]) \o <<")">> ELSE <<"None">>

----------------------------------------------------------------------------
\* Paths: a path is a sequence of components, a component a byte string.

\* PathBuf::join of one relative component.
Join(path, component) == Append(path, component)

RECURSIVE Flatten(_)
Flatten(path) ==
  IF Len(path) = 0 THEN <<>>
  ELSE <<"/">> \o path[1] \o Flatten(SubSeq(path, 2, Len(path)))

ValidUnicode(path) ==
  \A i \in 1..Len(path) : \A j \in 1..Len(path[i]) : path[i][j] # InvalidByte

\* Path::to_str: Some(text) only when the path is valid Unicode.
ToStr(path) == IF ValidUnicode(path) THEN Some(Flatten(path)) ELSE None

\* Path::display: lossy rendering, invalid bytes become U+FFFD.
Display(path) == FromUtf8Lossy(Flatten(path))

BackendDist == <<"b","a","c","k","e","n","d","-","d","i","s","t">>
ShipagentCore == <<"s","h","i","p","a","g","e","n","t","-","c","o","r","e">>

\* resource_dir().join("backend-dist").join("shipagent-core")
ExecutablePath(root) == Join(Join(root, BackendDist), ShipagentCore)

----------------------------------------------------------------------------
\* Result<u16, String>, the value start_sidecar returns.

Ok(p) == [tag |-> "Ok", port |-> Some(p), msg |-> <<>>]
Err(m) == [tag |-> "Err", port |-> None, msg |-> m]

ResolveErrorMsg(e) == <<"Failed to resolve resource dir: ">> \o e
\* Faulty variant of NotFoundMsg: the resource directory is shown, not the joined path.
NotFoundMsgRootOnly(path) ==
  <<"Backend binary not found at: ">> \o Display(SubSeq(path, 1, Len(path) - 2))
NotFoundMsg(path) == <<"Backend binary not found at: ">> \o Display(path)
\* Faulty variant of SpawnErrorMsg: the spawn error is reported like an error
\* event of the stream.
SpawnErrorMsgAsStderr(e) == <<"Backend stderr: ">> \o e
SpawnErrorMsg(e) == <<"Failed to spawn backend: ">> \o e
StderrMsg(e) == <<"Backend stderr: ">> \o e
\* Faulty variant of ExitedEarlyMsg: the exit code is left out of the message.
ExitedEarlyMsgNoCode(code) == <<"Backend exited early">>
ExitedEarlyMsg(code) == <<"Backend exited early: ">> \o DebugCode(code)
NoPortMsg == <<"Backend did not report a port">>

\* Arguments of the backend command line.
BackendArgs == <<"serve", "--port", "0">>

----------------------------------------------------------------------------
\* The environment's inputs.

\* Resource roots the platform may resolve: one valid Unicode, one not.
ResourceRoots == { << <<"a","p","p">> >>, << <<"a", InvalidByte>> >> }

\* Outcomes of resource_dir(): Some(root), or None with an error text.
ResolveErrors == { <<"unknown path">> }

\* OS errors of spawn().
SpawnErrors == { <<"Permission denied">> }

\* Lines the backend may write to its standard output (bytes).
LogLine == <<"o","k">>
Marker8080 == PortPrefix \o <<"8","0","8","0">>
Marker54321 == PortPrefix \o <<"5","4","3","2","1","\n">>
MarkerNaN == PortPrefix \o <<"n","o","t","-","a","-","n","u","m","b","e","r">>
Marker65536 == PortPrefix \o <<"6","5","5","3","6">>
StdoutLines == {LogLine, Marker8080, Marker54321, MarkerNaN, Marker65536}

\* Further lines of standard output: the marker after other text, and
\* remainders at and around the limits of u16.
MarkerIndented == <<" ">> \o Marker8080
MarkerMidLine == LogLine \o <<" ">> \o Marker8080
Marker0 == PortPrefix \o <<"0">>
Marker65535 == PortPrefix \o <<"6","5","5","3","5">>
MarkerNegative == PortPrefix \o <<"-","1">>
MarkerEmpty == PortPrefix
EdgeLines ==
  {MarkerIndented, MarkerMidLine, Marker0, Marker65535, Marker65536,
   MarkerNegative, MarkerEmpty}

\* Lines the backend may write to its standard error (bytes).
StderrLines == { <<"b","o","o","m">> }

\* Texts of CommandEvent::Error (a failed read or wait).
EventErrors == { <<"broken pipe">> }

\* Exit codes of CommandEvent::Terminated: Some(code), or None (killed).
ExitCodes == { Some(0), Some(1), None }

----------------------------------------------------------------------------
VARIABLES
  pc,             \* position of the invocation of start_sidecar
  invocations,    \* invocations of start_sidecar so far
  fs,             \* paths that exist in the file system
  resource_path,  \* the local resource_path, None before it is computed
  port,           \* the local port: Option<u16>
  command,        \* program and arguments of the spawned process, or None
  spawns,         \* processes spawned by the current invocation
  spawned,        \* processes spawned since the application started
  alive,          \* the process spawned by the current invocation is running
  stream,         \* events the child has sent on rx, in emission order
  pos,            \* number of events rx.recv() has delivered
  closed,         \* the sending side of rx is dropped
  outcome,        \* the value returned, None while running
  returns         \* values returned by the current invocation

vars == <<pc, invocations, fs, resource_path, port, command, spawns, spawned, alive,
          stream, pos, closed, outcome, returns>>

Init ==
  /\ pc = "Idle"
  /\ invocations = 0
  /\ fs \in { {}, {ExecutablePath(r) : r \in ResourceRoots} }
  /\ resource_path = None
  /\ port = None
  /\ command = None
  /\ spawns = 0
  /\ spawned = 0
  /\ alive = FALSE
  /\ stream = <<>>
  /\ pos = 0
  /\ closed = FALSE
  /\ outcome = None
  /\ returns = 0

Ended == pc \in {"Succeeded", "Failed", "Panicked"}

\* return value: the task completes with result r.
Return(r) ==
  /\ pc' = IF r.tag = "Ok" THEN "Succeeded" ELSE "Failed"
  /\ outcome' = Some(r)
  /\ returns' = returns + 1

\* The frontend calls invoke('start_sidecar').
Invoke ==
  /\ pc = "Idle" \/ Ended
  /\ invocations < MaxInvocations
  /\ invocations' = invocations + 1
  /\ pc' = "ResolvingPath"
  /\ resource_path' = None
  /\ port' = None
  /\ command' = None
  /\ spawns' = 0
  /\ alive' = FALSE
  /\ stream' = <<>>
  /\ pos' = 0
  /\ closed' = FALSE
  /\ outcome' = None
  /\ returns' = 0
  /\ UNCHANGED <<fs, spawned>>

\* The first invocation after the application started.
Start == pc = "Idle" /\ Invoke

\* A further invocation by the frontend (a reload of the page), after the
\* previous one ended.
Reinvoke == Ended /\ Invoke

\* app.path().resource_dir().map_err(..)?.join(..).join(..)
ResolvePath ==
  /\ pc = "ResolvingPath"
  /\ \/ \E e \in ResolveErrors :
          /\ Return(Err(ResolveErrorMsg(e)))
          /\ UNCHANGED resource_path
     \/ \E root \in ResourceRoots :
          /\ resource_path' = Some(ExecutablePath(root))
          /\ pc' = "CheckingExistence"
          /\ UNCHANGED <<outcome, returns>>
  /\ UNCHANGED <<invocations, fs, port, command, spawns, spawned, alive, stream, pos, closed>>

\* Faulty variant of CheckExistence: the result of exists() is not acted on.
CheckExistenceIgnored ==
  /\ pc = "CheckingExistence"
  /\ pc' = "Spawning"
  /\ UNCHANGED <<outcome, returns>>
  /\ UNCHANGED <<invocations, fs, resource_path, port, command, spawns, spawned, alive, stream, pos,
                 closed>>

\* if !resource_path.exists() { return Err(..) }
CheckExistence ==
  /\ pc = "CheckingExistence"
  /\ IF resource_path[1] \notin fs
     THEN Return(Err(NotFoundMsg(resource_path[1])))
     ELSE /\ pc' = "Spawning"
          /\ UNCHANGED <<outcome, returns>>
  /\ UNCHANGED <<invocations, fs, resource_path, port, command, spawns, spawned, alive, stream, pos,
                 closed>>

\* shell.command(resource_path.to_str().unwrap()).args(..).spawn().map_err(..)?
\* and the initialisation of port.
Spawn ==
  /\ pc = "Spawning"
  /\ IF IsNone(ToStr(resource_path[1]))
     THEN \* unwrap() on None panics: the task ends without a value
          /\ pc' = "Panicked"
          /\ UNCHANGED <<command, spawns, spawned, alive, outcome, returns>>
     ELSE \/ \E e \in SpawnErrors :
               /\ Return(Err(SpawnErrorMsg(e)))
               /\ UNCHANGED <<command, spawns, spawned, alive>>
          \/ /\ command' = Some([program |-> ToStr(resource_path[1])[1],
                                 args |-> BackendArgs])
             /\ spawns' = spawns + 1
             /\ spawned' = spawned + 1
             /\ alive' = TRUE
             /\ pc' = "AwaitingHandshake"
             /\ UNCHANGED <<outcome, returns>>
  /\ port' = None
  /\ UNCHANGED <<invocations, fs, resource_path, stream, pos, closed>>

----------------------------------------------------------------------------
\* The handshake loop: while let Some(event) = rx.recv().await { match event {..} }

\* Faulty variant of PortOrElse: a missing port defaults to 0
\* (port.unwrap_or(0)).
PortOrZero(p) == IF IsSome(p) THEN Ok(p[1]) ELSE Ok(0)

\* port.ok_or_else(|| "Backend did not report a port".to_string())
PortOrElse(p) == IF IsSome(p) THEN Ok(p[1]) ELSE Err(NoPortMsg)

\* rx.recv() has an event to deliver.
CanRecv == pc = "AwaitingHandshake" /\ pos < Len(stream)

NextEvent == stream[pos + 1]

\* Faulty variant of RecvStdout: no break, a marker line sets port and the
\* loop goes on scanning (the last marker wins).
RecvStdoutNoBreak ==
  /\ CanRecv
  /\ NextEvent.kind = "Stdout"
  /\ pos' = pos + 1
  /\ LET text == FromUtf8Lossy(NextEvent.data)
         p == StripPrefix(text, PortPrefix)
     IN IF IsSome(p)
        THEN port' = ParseU16(Trim(p[1]))
        ELSE UNCHANGED port
  /\ UNCHANGED <<pc, outcome, returns>>
  /\ UNCHANGED <<invocations, fs, resource_path, command, spawns, spawned, alive, stream, closed>>

\* Faulty variant of RecvStdout: the loop breaks only when the port parsed,
\* a marker line that does not parse is skipped like a log line.
RecvStdoutBreakOnParse ==
  /\ CanRecv
  /\ NextEvent.kind = "Stdout"
  /\ pos' = pos + 1
  /\ LET text == FromUtf8Lossy(NextEvent.data)
         p == StripPrefix(text, PortPrefix)
         parsed == IF IsSome(p) THEN ParseU16(Trim(p[1])) ELSE None
     IN IF IsSome(parsed)
        THEN /\ port' = parsed
             /\ Return(PortOrElse(parsed))
        ELSE UNCHANGED <<port, pc, outcome, returns>>
  /\ UNCHANGED <<invocations, fs, resource_path, command, spawns, spawned, alive, stream, closed>>

\* CommandEvent::Stdout(line): a line with the prefix sets port and breaks,
\* and the function returns port.ok_or_else(..); other lines are skipped.
RecvStdout ==
  /\ CanRecv
  /\ NextEvent.kind = "Stdout"
  /\ pos' = pos + 1
  /\ \E text \in {FromUtf8Lossy(NextEvent.data)} :
     \E p \in {StripPrefix(text, PortPrefix)} :
       IF IsSome(p)
       THEN \E parsed \in {ParseU16(Trim(p[1]))} :
              /\ port' = parsed
              /\ Return(PortOrElse(parsed))
       ELSE UNCHANGED <<port, pc, outcome, returns>>
  /\ UNCHANGED <<invocations, fs, resource_path, command, spawns, spawned, alive, stream, closed>>

\* Faulty variant of RecvError: the error event is skipped and the loop
\* goes on.
RecvErrorSkips ==
  /\ CanRecv
  /\ NextEvent.kind = "Error"
  /\ pos' = pos + 1
  /\ UNCHANGED <<pc, invocations, fs, resource_path, port, command, spawns, spawned, alive, stream,
                 closed, outcome, returns>>

\* Faulty variant of RecvError: the worker is killed before the error is
\* returned.
RecvErrorKills ==
  /\ CanRecv
  /\ NextEvent.kind = "Error"
  /\ pos' = pos + 1
  /\ alive' = FALSE
  /\ Return(Err(StderrMsg(NextEvent.data)))
  /\ UNCHANGED <<invocations, fs, resource_path, port, command, spawns, spawned, stream, closed>>

\* CommandEvent::Error(e) => return Err(format!("Backend stderr: {e}"))
RecvError ==
  /\ CanRecv
  /\ NextEvent.kind = "Error"
  /\ pos' = pos + 1
  /\ Return(Err(StderrMsg(NextEvent.data)))
  /\ UNCHANGED <<invocations, fs, resource_path, port, command, spawns, spawned, alive, stream, closed>>

\* Faulty variant of RecvTerminated: an exit with code 0 is not treated as
\* early termination, the function falls through to port.ok_or_else(..).
RecvTerminatedZeroOk ==
  /\ CanRecv
  /\ NextEvent.kind = "Terminated"
  /\ pos' = pos + 1
  /\ IF NextEvent.data = Some(0)
     THEN Return(PortOrElse(port))
     ELSE Return(Err(ExitedEarlyMsg(NextEvent.data)))
  /\ UNCHANGED <<invocations, fs, resource_path, port, command, spawns, spawned, alive, stream, closed>>

\* CommandEvent::Terminated(payload) => return Err(format!("Backend exited early: ..."))
RecvTerminated ==
  /\ CanRecv
  /\ NextEvent.kind = "Terminated"
  /\ pos' = pos + 1
  /\ Return(Err(ExitedEarlyMsg(NextEvent.data)))
  /\ UNCHANGED <<invocations, fs, resource_path, port, command, spawns, spawned, alive, stream, closed>>

\* Faulty variant of RecvOther: a line on standard error is returned as the
\* "Backend stderr: " failure.
RecvOtherFails ==
  /\ CanRecv
  /\ NextEvent.kind \notin {"Stdout", "Error", "Terminated"}
  /\ pos' = pos + 1
  /\ Return(Err(StderrMsg(FromUtf8Lossy(NextEvent.data))))
  /\ UNCHANGED <<invocations, fs, resource_path, port, command, spawns, spawned, alive, stream, closed>>

\* Faulty variant of RecvOther: an unmatched event ends the loop (_ => break).
RecvOtherBreaks ==
  /\ CanRecv
  /\ NextEvent.kind \notin {"Stdout", "Error", "Terminated"}
  /\ pos' = pos + 1
  /\ Return(PortOrElse(port))
  /\ UNCHANGED <<invocations, fs, resource_path, port, command, spawns, spawned, alive, stream, closed>>

\* _ => {}: every other event (CommandEvent::Stderr) is skipped.
RecvOther ==
  /\ CanRecv
  /\ NextEvent.kind \notin {"Stdout", "Error", "Terminated"}
  /\ pos' = pos + 1
  /\ UNCHANGED <<pc, invocations, fs, resource_path, port, command, spawns, spawned, alive, stream,
                 closed, outcome, returns>>

\* Faulty variant of RecvNone: the receive stays pending after the stream
\* was closed, the function never leaves the loop.
RecvNoneWaits ==
  /\ pc = "AwaitingHandshake"
  /\ pos = Len(stream)
  /\ closed
  /\ UNCHANGED vars

\* rx.recv() yields None (all events delivered, sender dropped): the loop
\* ends and the function returns port.ok_or_else(..).
RecvNone ==
  /\ pc = "AwaitingHandshake"
  /\ pos = Len(stream)
  /\ closed
  /\ Return(PortOrElse(port))
  /\ UNCHANGED <<invocations, fs, resource_path, port, command, spawns, spawned, alive, stream, pos,
                 closed>>

----------------------------------------------------------------------------
\* The spawned backend and the plugin's reader threads feeding rx.

StdoutEvent(line) == [kind |-> "Stdout", data |-> line]
StderrEvent(line) == [kind |-> "Stderr", data |-> line]
ErrorEvent(e) == [kind |-> "Error", data |-> e]
TerminatedEvent(code) == [kind |-> "Terminated", data |-> code]

\* A process was spawned by this invocation and its stream is still open.
ChildCanSend == spawns > 0 /\ ~closed /\ Len(stream) < MaxEvents

Send(event) ==
  /\ ChildCanSend
  /\ stream' = Append(stream, event)

\* The backend writes a line to its standard output.
ChildStdout ==
  /\ \E line \in StdoutLines : Send(StdoutEvent(line))
  /\ UNCHANGED <<pc, invocations, fs, resource_path, port, command, spawns, spawned, alive, pos, closed,
                 outcome, returns>>

\* The backend writes a line to its standard error.
ChildStderr ==
  /\ \E line \in StderrLines : Send(StderrEvent(line))
  /\ UNCHANGED <<pc, invocations, fs, resource_path, port, command, spawns, spawned, alive, pos, closed,
                 outcome, returns>>

\* Reading a pipe of the backend fails: the plugin reports CommandEvent::Error.
PipeError ==
  /\ \E e \in EventErrors : Send(ErrorEvent(e))
  /\ UNCHANGED <<pc, invocations, fs, resource_path, port, command, spawns, spawned, alive, pos, closed,
                 outcome, returns>>

\* The backend exits: Terminated is the last event, then the sender is dropped.
ChildExit ==
  /\ \E code \in ExitCodes : Send(TerminatedEvent(code))
  /\ closed' = TRUE
  /\ alive' = FALSE
  /\ UNCHANGED <<pc, invocations, fs, resource_path, port, command, spawns, spawned, pos,
                 outcome, returns>>

\* The sender is dropped without a termination event.
StreamClose ==
  /\ spawns > 0
  /\ ~closed
  /\ closed' = TRUE
  /\ UNCHANGED <<pc, invocations, fs, resource_path, port, command, spawns, spawned, alive, stream, pos,
                 outcome, returns>>

----------------------------------------------------------------------------
\* One step of start_sidecar.
Supervisor ==
  \/ ResolvePath
  \/ CheckExistence
  \/ Spawn
  \/ RecvStdout
  \/ RecvError
  \/ RecvTerminated
  \/ RecvOther
  \/ RecvNone

\* One step of the backend process or of its pipes.
Child ==
  \/ ChildStdout
  \/ ChildStderr
  \/ PipeError
  \/ ChildExit
  \/ StreamClose

Next ==
  \/ Start
  \/ ResolvePath
  \/ CheckExistence
  \/ Spawn
  \/ RecvStdout
  \/ RecvError
  \/ RecvTerminated
  \/ RecvOther
  \/ RecvNone
  \/ ChildStdout
  \/ ChildStderr
  \/ PipeError
  \/ ChildExit
  \/ StreamClose

\* One invocation of start_sidecar, from the frontend's call to its end.
Spec == Init /\ [][Next]_vars

\* The backend writes one of the further lines to its standard output.
ChildStdoutEdge ==
  /\ \E line \in EdgeLines : Send(StdoutEvent(line))
  /\ UNCHANGED <<pc, invocations, fs, resource_path, port, command, spawns, spawned, alive, pos, closed,
                 outcome, returns>>

\* One invocation of start_sidecar whose worker emits at most MaxLines
\* events, its standard-output lines drawn from EdgeLines.
EdgeChild ==
  \/ Len(stream) < MaxLines /\ ChildStdoutEdge
  \/ Len(stream) < MaxLines /\ ChildStderr
  \/ Len(stream) < MaxLines /\ PipeError
  \/ Len(stream) < MaxLines /\ ChildExit

EdgeNext ==
  \/ Start
  \/ Supervisor
  \/ EdgeChild
  \/ StreamClose

EdgeSpec == Init /\ [][EdgeNext]_vars

\* EdgeSpec with the task of start_sidecar polled whenever it can proceed.
FairEdgeSpec == EdgeSpec /\ WF_vars(Supervisor)

\* A run of the application: the frontend may invoke start_sidecar again.
RunNext ==
  \/ Start
  \/ Reinvoke
  \/ Supervisor
  \/ Child

RunSpec == Init /\ [][RunNext]_vars

\* The async runtime keeps polling the task: a step of start_sidecar that is
\* enabled is eventually taken.
FairSpec == Spec /\ WF_vars(Supervisor)

----------------------------------------------------------------------------
\* Vocabulary of the properties, stated on the emitted stream.

\* The invocation has spawned its worker.
Spawned == spawns > 0

\* The invocation has returned a value after spawning its worker.
ReturnedAfterSpawn == Spawned /\ IsSome(outcome)

\* A standard-output line that starts with "SHIPAGENT_PORT=".
IsMarkerLine(e) ==
  /\ e.kind = "Stdout"
  /\ Len(e.data) >= Len(PortPrefix)
  /\ \A i \in 1..Len(PortPrefix) : e.data[i] = PortPrefix[i]

\* What follows the prefix on a marker line.
Remainder(e) == [i \in 1..(Len(e.data) - Len(PortPrefix)) |-> e.data[Len(PortPrefix) + i]]

\* t without its leading and trailing white space.
Stripped(t) ==
  LET keep == {i \in 1..Len(t) : t[i] \notin WhiteSpace} IN
  IF keep = {} THEN <<>>
  ELSE LET lo == CHOOSE i \in keep : \A j \in keep : i <= j
           hi == CHOOSE i \in keep : \A j \in keep : i >= j
       IN [k \in 1..(hi - lo + 1) |-> t[lo + k - 1]]

DigitChars == {"0","1","2","3","4","5","6","7","8","9"}

IsDecimal(t) == Len(t) > 0 /\ \A i \in 1..Len(t) : t[i] \in DigitChars

DigitValue(c) ==
  CASE c = "0" -> 0 [] c = "1" -> 1 [] c = "2" -> 2 [] c = "3" -> 3 [] c = "4" -> 4
    [] c = "5" -> 5 [] c = "6" -> 6 [] c = "7" -> 7 [] c = "8" -> 8 [] c = "9" -> 9

RECURSIVE DecimalValue(_)
DecimalValue(t) ==
  IF Len(t) = 0 THEN 0
  ELSE 10 * DecimalValue([i \in 1..(Len(t) - 1) |-> t[i]]) + DigitValue(t[Len(t)])

\* A marker line whose trimmed remainder is a decimal number in 0..65535.
IsWellFormedMarker(e) ==
  /\ IsMarkerLine(e)
  /\ IsDecimal(Stripped(Remainder(e)))
  /\ DecimalValue(Stripped(Remainder(e))) \in 0..U16Max

MarkerPort(e) == DecimalValue(Stripped(Remainder(e)))

\* A marker line whose remainder does not parse as a 16-bit unsigned integer.
IsMalformedMarker(e) == IsMarkerLine(e) /\ IsNone(ParseU16(Trim(Remainder(e))))

\* Terminal events: marker line, error event, termination event.
IsTerminal(e) == IsMarkerLine(e) \/ e.kind = "Error" \/ e.kind = "Terminated"

\* Index of the first terminal event of the stream, 0 when there is none.
FirstTerminal ==
  LET T == {i \in 1..Len(stream) : IsTerminal(stream[i])} IN
  IF T = {} THEN 0 ELSE CHOOSE i \in T : \A j \in T : i <= j

\* Index of the first marker line of the stream, 0 when there is none.
FirstMarker ==
  LET M == {i \in 1..Len(stream) : IsMarkerLine(stream[i])} IN
  IF M = {} THEN 0 ELSE CHOOSE i \in M : \A j \in M : i <= j

NoMarkerBefore(i) == \A j \in 1..(i - 1) : ~IsMarkerLine(stream[j])

----------------------------------------------------------------------------
\* C1: after a successful spawn, when the first terminal event of the stream
\* is a standard-output line with the prefix "SHIPAGENT_PORT=" whose trimmed
\* remainder is a decimal number in 0..65535, start_sidecar returns
\* Success(that number) as soon as the line is consumed, and the outcome
\* stays so whether the worker afterwards exits or keeps running.
C1_WellFormedMarkerSucceeds ==
  (/\ Spawned
   /\ FirstTerminal # 0
   /\ pos >= FirstTerminal
   /\ IsWellFormedMarker(stream[FirstTerminal]))
  => /\ pc = "Succeeded"
     /\ outcome = Some(Ok(MarkerPort(stream[FirstTerminal])))

\* A worker wrote "SHIPAGENT_PORT=54321\n" and then exited; Success(54321).
C1_Witness ==
  /\ Spawned
  /\ FirstTerminal # 0
  /\ pos >= FirstTerminal
  /\ stream[FirstTerminal].kind = "Stdout"
  /\ stream[FirstTerminal].data = Marker54321
  /\ Len(stream) > FirstTerminal
  /\ stream[Len(stream)].kind = "Terminated"
  /\ pc = "Succeeded"
  /\ outcome[1].port = Some(54321)

----------------------------------------------------------------------------
\* C2: for a worker that writes to its error channel before any port marker,
\* the outcome is the failure "Backend stderr: <message>" carrying the text
\* written, and the loop stops there: a worker that writes an error and then
\* a valid marker line never yields Success.
C2_StderrWriteFails ==
  \A i \in 1..Len(stream) :
    (/\ ReturnedAfterSpawn
     /\ stream[i].kind = "Stderr"
     /\ \A j \in 1..(i - 1) : stream[j].kind = "Stdout" /\ ~IsMarkerLine(stream[j]))
    => /\ outcome = Some(Err(StderrMsg(FromUtf8Lossy(stream[i].data))))
       /\ pos = i

\* C3: when a Terminated(code) event is consumed and no marker line was
\* consumed before it, start_sidecar returns
\* Failure("Backend exited early: <code>") with that code (Some(n) or None);
\* for exit code 1 the message mentions 1.
C3_EarlyTerminationFails ==
  \A i \in 1..Len(stream) :
    (/\ Spawned
     /\ pos >= i
     /\ stream[i].kind = "Terminated"
     /\ NoMarkerBefore(i))
    => /\ pc = "Failed"
       /\ outcome = Some(Err(ExitedEarlyMsg(stream[i].data)))
       /\ outcome[1].msg[1] = "Backend exited early: "
       /\ stream[i].data = Some(1) => \E k \in 2..Len(outcome[1].msg) : outcome[1].msg[k] = "1"

\* The worker wrote a log line, then exited with code 1 before any marker.
C3_Witness ==
  /\ Spawned
  /\ Len(stream) = 2
  /\ pos = 2
  /\ stream[1].kind = "Stdout"
  /\ stream[2].kind = "Terminated"
  /\ stream[2].data = Some(1)
  /\ pc = "Failed"

\* C4 as stated: when the first marker line of the stream has a remainder
\* that does not parse as a u16, the loop stops at that line and the outcome
\* is Failure("Backend did not report a port").
C4_MalformedFirstMarker ==
  (/\ ReturnedAfterSpawn
   /\ FirstMarker # 0
   /\ IsMalformedMarker(stream[FirstMarker]))
  => /\ pos = FirstMarker
     /\ outcome = Some(Err(NoPortMsg))

\* C4 amended: when the first terminal event of the stream is a marker line
\* whose remainder does not parse as a u16, then once it is consumed the loop
\* has stopped at that line and the outcome is
\* Failure("Backend did not report a port"), whatever events follow it.
C4_MalformedFirstTerminal ==
  (/\ Spawned
   /\ FirstTerminal # 0
   /\ pos >= FirstTerminal
   /\ IsMalformedMarker(stream[FirstTerminal]))
  => /\ pos = FirstTerminal
     /\ pc = "Failed"
     /\ port = None
     /\ outcome = Some(Err(NoPortMsg))

\* A malformed marker line was consumed first and a well-formed one follows.
C4_Witness ==
  /\ Spawned
  /\ FirstTerminal # 0
  /\ pos >= FirstTerminal
  /\ IsMalformedMarker(stream[FirstTerminal])
  /\ Len(stream) > FirstTerminal
  /\ IsWellFormedMarker(stream[FirstTerminal + 1])
  /\ pc = "Failed"

\* The worker exited with code 0 and neither a marker line nor an error
\* event was ever sent; start_sidecar has returned.
ExitedZeroWithoutMarker ==
  /\ ReturnedAfterSpawn
  /\ Len(stream) > 0
  /\ stream[Len(stream)].kind = "Terminated"
  /\ stream[Len(stream)].data = Some(0)
  /\ \A j \in 1..(Len(stream) - 1) : ~IsMarkerLine(stream[j]) /\ stream[j].kind # "Error"

\* C5 as stated: a worker that exits with code 0 without ever writing a
\* marker line yields Failure("Backend did not report a port").
C5_ExitZeroNoPort ==
  ExitedZeroWithoutMarker => outcome = Some(Err(NoPortMsg))

\* C5 amended: a worker that exits with code 0 without ever writing a marker
\* line (and without an error event) yields the early-termination failure
\* "Backend exited early: Some(0)".
C5_ExitZeroExitedEarly ==
  ExitedZeroWithoutMarker
  => /\ pc = "Failed"
     /\ outcome[1].tag = "Err"
     /\ outcome[1].msg = <<"Backend exited early: ", "Some(", "0", ")">>

\* The worker wrote one log line and exited with code 0.
C5_Witness ==
  /\ ExitedZeroWithoutMarker
  /\ Len(stream) = 2
  /\ stream[1].kind = "Stdout"
  /\ pos = 2

----------------------------------------------------------------------------
\* The outcome a terminal event decides.
DecidedBy(e) ==
  IF e.kind = "Error" THEN Err(StderrMsg(e.data))
  ELSE IF e.kind = "Terminated" THEN Err(ExitedEarlyMsg(e.data))
  ELSE PortOrElse(ParseU16(Trim(Remainder(e))))

\* C6: events are consumed in emission order and the first terminal event
\* (marker line, error event, termination event) decides the outcome: no
\* event after it is consumed, and the outcome depends on that event alone,
\* so streams that agree up to their first terminal event give the same
\* outcome.
C6_FirstTerminalWins ==
  (Spawned /\ FirstTerminal # 0)
  => /\ pos <= FirstTerminal
     /\ pos = FirstTerminal => outcome = Some(DecidedBy(stream[FirstTerminal]))
     /\ pos < FirstTerminal => outcome = None
     /\ \A j \in 1..pos : j < FirstTerminal => ~IsTerminal(stream[j])

\* Log line, "SHIPAGENT_PORT=8080", log line, exit 0: Success(8080).
C6_Witness ==
  /\ Spawned
  /\ Len(stream) = 4
  /\ stream[1] = StdoutEvent(LogLine)
  /\ stream[2] = StdoutEvent(Marker8080)
  /\ stream[3] = StdoutEvent(LogLine)
  /\ stream[4].kind = "Terminated"
  /\ stream[4].data = Some(0)
  /\ pos = 2
  /\ outcome = Some(Ok(8080))

\* C7: a worker is spawned only after the resource root resolved and the
\* joined path was found to exist; an invocation in which resolution failed
\* or the path is absent spawns nothing, and no invocation spawns twice.
C7_SpawnOnlyAfterChecks ==
  /\ spawns <= 1
  /\ Spawned => (IsSome(resource_path) /\ resource_path[1] \in fs)
  /\ IsSome(command) <=> Spawned
  /\ pc \in {"ResolvingPath", "CheckingExistence", "Spawning"} => ~Spawned

\* The worker has just been spawned, the path resolved and present.
C7_Witness ==
  /\ pc = "AwaitingHandshake"
  /\ spawns = 1
  /\ IsSome(resource_path)
  /\ resource_path[1] \in fs
  /\ alive

\* The existence check has run and found the joined path absent.
ExecutableMissing ==
  /\ pc \notin {"Idle", "ResolvingPath", "CheckingExistence"}
  /\ IsSome(resource_path)
  /\ resource_path[1] \notin fs

\* The joined path is <resource root>/backend-dist/shipagent-core.
IsJoinedPath(path) == \E root \in ResourceRoots : path = root \o <<BackendDist, ShipagentCore>>

\* C8 as stated: when the root resolves but the joined path does not exist,
\* start_sidecar returns the ExecutableNotFound failure and the message holds
\* exactly the joined path.
C8_ExactPathInMessage ==
  ExecutableMissing
  => /\ pc = "Failed"
     /\ IsJoinedPath(resource_path[1])
     /\ outcome = Some(Err(<<"Backend binary not found at: ">> \o Flatten(resource_path[1])))

\* C8 amended: when the root resolves but the joined path does not exist,
\* start_sidecar returns the ExecutableNotFound failure, spawning nothing, and
\* the message holds the joined path as Path::display renders it: the path
\* itself when it is valid Unicode, and with U+FFFD for each invalid byte
\* otherwise.
C8_DisplayedPathInMessage ==
  ExecutableMissing
  => /\ pc = "Failed"
     /\ ~Spawned
     /\ IsJoinedPath(resource_path[1])
     /\ outcome[1].tag = "Err"
     /\ outcome[1].msg[1] = "Backend binary not found at: "
     /\ LET shown == SubSeq(outcome[1].msg, 2, Len(outcome[1].msg))
            path == Flatten(resource_path[1])
        IN /\ Len(shown) = Len(path)
           /\ \A i \in 1..Len(path) :
                shown[i] = IF path[i] = InvalidByte THEN ReplacementChar ELSE path[i]
           /\ ValidUnicode(resource_path[1]) => shown = path

\* The root resolved, the executable is missing, the invocation failed.
C8_Witness ==
  /\ ExecutableMissing
  /\ pc = "Failed"
  /\ ValidUnicode(resource_path[1])

\* C9: every invocation that ends has produced exactly one outcome; a
\* failing step goes to Failed with its message, Succeeded and Failed are
\* terminal, and no invocation ends without an outcome or with a second one.
C9_ExactlyOneOutcome ==
  /\ returns <= 1
  /\ Ended => (returns = 1 /\ IsSome(outcome))
  /\ pc \in {"Succeeded", "Failed"} <=> IsSome(outcome)
  /\ IsSome(outcome) => (pc = "Succeeded" <=> outcome[1].tag = "Ok")

\* The loop may end at this state: the next event is terminal, or the stream
\* is exhausted and closed.
LoopMayEnd ==
  \/ pos < Len(stream) /\ IsTerminal(stream[pos + 1])
  \/ pos = Len(stream) /\ closed

\* C10: there is no timeout: while no marker line, error event or
\* termination event is delivered and the stream is not closed, no step
\* takes start_sidecar out of AwaitingHandshake and no outcome is returned.
C10_NoTimeout ==
  [][(pc = "AwaitingHandshake" /\ ~LoopMayEnd)
       => (pc' = "AwaitingHandshake" /\ outcome' = None)]_vars

\* The worker wrote only unrelated lines, all consumed; the stream is open
\* and start_sidecar is suspended in AwaitingHandshake with no step to take.
C10_Witness ==
  /\ pc = "AwaitingHandshake"
  /\ Len(stream) = MaxEvents
  /\ pos = Len(stream)
  /\ FirstTerminal = 0
  /\ \E i \in 1..Len(stream) : stream[i].kind = "Stderr"
  /\ ~closed
  /\ outcome = None
  /\ ~ENABLED Supervisor

\* The worker processes of the current invocation that are running.
Running == IF alive THEN {spawned} ELSE {}

\* C11: a return of Failure after the worker was spawned neither kills nor
\* restarts the worker: across every step that takes start_sidecar from
\* AwaitingHandshake to Failed the set of running worker processes and the
\* number of processes spawned are the same before and after.
C11_FailureLeavesWorker ==
  [][(Spawned /\ pc = "AwaitingHandshake" /\ pc' = "Failed")
       => (Running' = Running /\ spawned' = spawned /\ spawns' = spawns)]_vars

\* start_sidecar has returned Failure on an error event and the worker it
\* spawned is still running.
C11_Witness ==
  /\ pc = "Failed"
  /\ Spawned
  /\ pos > 0
  /\ stream[pos].kind = "Error"
  /\ outcome = Some(Err(StderrMsg(stream[pos].data)))
  /\ Running = {spawned}

\* C12: only one supervised startup happens per application run: whatever
\* the sequence of start_sidecar invocations by the frontend, at most one
\* worker process is ever spawned.
C12_AtMostOneWorker == spawned <= 1

\* The receive has yielded "no more events": every event of the closed
\* stream was consumed and start_sidecar has left the loop.
StreamExhausted ==
  /\ Spawned
  /\ closed
  /\ pos = Len(stream)
  /\ pc # "AwaitingHandshake"

\* C13: if the event stream ends while the loop has consumed no marker line,
\* no error event and no termination event, start_sidecar returns
\* Failure("Backend did not report a port"); and a return after the spawn
\* with none of these events in the stream is made only at the end of the
\* stream.
C13_StreamEndFails ==
  /\ (StreamExhausted /\ FirstTerminal = 0)
       => (pc = "Failed" /\ outcome = Some(Err(NoPortMsg)))
  /\ (ReturnedAfterSpawn /\ FirstTerminal = 0) => StreamExhausted

\* The worker wrote an unrelated line to each of its outputs, then its
\* stream closed without a termination event; start_sidecar has returned.
C13_Witness ==
  /\ StreamExhausted
  /\ FirstTerminal = 0
  /\ Len(stream) = 2
  /\ stream[1].kind = "Stdout"
  /\ stream[2].kind = "Stderr"
  /\ outcome = Some(Err(NoPortMsg))

\* The spawn call itself failed: the executable exists, its path is valid
\* Unicode, the invocation has ended and no worker process was spawned.
SpawnFailed ==
  /\ Ended
  /\ IsSome(resource_path)
  /\ resource_path[1] \in fs
  /\ IsSome(ToStr(resource_path[1]))
  /\ ~Spawned

\* The leading fixed text of the failures returned from the handshake loop.
StreamFailurePrefixes ==
  {StderrMsg(<<>>)[1], ExitedEarlyMsg(None)[1], NoPortMsg[1]}

\* C14: if the spawn call itself fails, start_sidecar returns
\* Failure("Failed to spawn backend: <OS error>"), a message that differs
\* from every failure of the handshake loop, and the loop is never entered:
\* no event is emitted or consumed and no command is running.
C14_SpawnFailureImmediate ==
  SpawnFailed =>
    /\ pc = "Failed"
    /\ \E e \in SpawnErrors : outcome = Some(Err(SpawnErrorMsg(e)))
    /\ outcome[1].msg[1] = "Failed to spawn backend: "
    /\ outcome[1].msg[1] \notin StreamFailurePrefixes
    /\ pos = 0
    /\ stream = <<>>
    /\ command = None
    /\ ~alive

\* The operating system refused to start the existing executable.
C14_Witness ==
  /\ SpawnFailed
  /\ outcome = Some(Err(<<"Failed to spawn backend: ", "Permission denied">>))

\* An event the loop ignores: a standard-output line that does not start
\* with the prefix, or an event that is neither a standard-output line, nor
\* an error event, nor a termination event.
Ignored(e) ==
  \/ e.kind = "Stdout" /\ ~IsMarkerLine(e)
  \/ e.kind \notin {"Stdout", "Error", "Terminated"}

\* C15: in AwaitingHandshake, consuming a standard-output line that does not
\* start with "SHIPAGENT_PORT=" (the marker in the middle of the line or
\* after white space included) or an event of another kind than line, error
\* and termination leaves the handshake as it was: the port stays unset, no
\* outcome is produced and the loop goes on to the next event.
C15_IgnoredEventKeepsState ==
  [][(/\ pc = "AwaitingHandshake"
      /\ pos < Len(stream)
      /\ Ignored(stream[pos + 1])
      /\ pos' # pos)
       => (/\ pos' = pos + 1
           /\ pc' = "AwaitingHandshake"
           /\ port = None
           /\ port' = None
           /\ outcome' = None
           /\ returns' = returns
           /\ alive' = alive
           /\ stream' = stream
           /\ closed' = closed)]_vars

\* The worker wrote the marker after a blank and the marker after other
\* text; both lines were consumed and start_sidecar is still waiting.
C15_Witness ==
  /\ pc = "AwaitingHandshake"
  /\ Len(stream) = 2
  /\ stream[1] = StdoutEvent(MarkerIndented)
  /\ stream[2] = StdoutEvent(MarkerMidLine)
  /\ pos = 2
  /\ port = None
  /\ outcome = None

\* The stream holds a terminal event not yet consumed, or it is closed.
StreamWillEnd ==
  \/ \E i \in (pos + 1)..Len(stream) : IsTerminal(stream[i])
  \/ closed

\* C16: once the worker is spawned, if the stream delivers a marker line,
\* an error event or a termination event, or closes, then start_sidecar
\* eventually returns an outcome, provided its task keeps being scheduled.
C16_EventuallyReturns ==
  (pc = "AwaitingHandshake" /\ StreamWillEnd) ~> (Spawned /\ IsSome(outcome))

\* start_sidecar has returned on the termination event that followed a line
\* on standard error.
C16_Witness ==
  /\ ReturnedAfterSpawn
  /\ Len(stream) = 2
  /\ stream[1].kind = "Stderr"
  /\ stream[2].kind = "Terminated"
  /\ pos = 2
  /\ closed

\* start_sidecar has returned Success.
ReturnedSuccess == pc = "Succeeded" \/ (IsSome(outcome) /\ outcome[1].tag = "Ok")

\* C17: start_sidecar returns Success(p) only if a standard-output line
\* starting with "SHIPAGENT_PORT=" was consumed, that line was the first
\* marker line of the stream, no error event or termination event was
\* consumed before it, and p is the 16-bit value written on that line.
C17_SuccessOnlyFromFirstMarker ==
  ReturnedSuccess =>
    /\ Spawned
    /\ pos > 0
    /\ IsMarkerLine(stream[pos])
    /\ pos = FirstMarker
    /\ \A j \in 1..(pos - 1) : stream[j].kind \notin {"Error", "Terminated"}
    /\ IsDecimal(Stripped(Remainder(stream[pos])))
    /\ MarkerPort(stream[pos]) \in 0..U16Max
    /\ outcome = Some(Ok(MarkerPort(stream[pos])))
    /\ port = Some(MarkerPort(stream[pos]))

\* The worker wrote an unrelated line and two marker lines; start_sidecar
\* returned the port of the first marker line and left the second unread.
C17_Witness ==
  /\ ReturnedSuccess
  /\ Len(stream) = 3
  /\ stream[1] = StdoutEvent(LogLine)
  /\ stream[2] = StdoutEvent(Marker8080)
  /\ stream[3] = StdoutEvent(Marker54321)
  /\ pos = 2
  /\ outcome = Some(Ok(8080))

\* Events 1..(i - 1) of the stream are lines of standard error.
OnlyStderrBefore(i) == \A j \in 1..(i - 1) : stream[j].kind = "Stderr"

\* C18: lines the worker writes to its standard error are not terminal: when
\* a well-formed marker line that follows any number of standard-error
\* lines has been consumed, the outcome is Success(port); and a failure
\* "Backend stderr: ..." is returned only on an event of the kind Error.
C18_StderrLinesNotTerminal ==
  /\ \A i \in 1..Len(stream) :
       (Spawned /\ pos >= i /\ OnlyStderrBefore(i) /\ IsWellFormedMarker(stream[i]))
         => (pc = "Succeeded" /\ pos = i /\ outcome = Some(Ok(MarkerPort(stream[i]))))
  /\ (IsSome(outcome) /\ outcome[1].tag = "Err" /\ outcome[1].msg[1] = StderrMsg(<<>>)[1])
       => (/\ pos > 0
           /\ stream[pos].kind = "Error"
           /\ outcome = Some(Err(StderrMsg(stream[pos].data))))

\* The worker wrote two lines to its standard error, then the marker line;
\* start_sidecar consumed all three and returned the port.
C18_Witness ==
  /\ pc = "Succeeded"
  /\ Len(stream) = 3
  /\ stream[1].kind = "Stderr"
  /\ stream[2].kind = "Stderr"
  /\ stream[3] = StdoutEvent(Marker8080)
  /\ pos = 3
  /\ outcome = Some(Ok(8080))

\* The loop has consumed marker line i as the first terminal event.
StoppedAtMarker(i) ==
  /\ Spawned
  /\ pos >= i
  /\ i = FirstTerminal
  /\ IsMarkerLine(stream[i])

\* C19: the port is bounded to 16 bits without wrap-around: a remainder of 0
\* yields Success(0) and 65535 yields Success(65535); a decimal remainder
\* in 0..65535 yields that value; a remainder of 65536 or more, a negative
\* number or an empty remainder yields Failure("Backend did not report a
\* port"), never a value reduced modulo 2^16.
C19_PortWithinU16 ==
  \A i \in 1..Len(stream) :
    StoppedAtMarker(i) =>
      LET r == Stripped(Remainder(stream[i])) IN
      /\ r = <<"0">> => outcome = Some(Ok(0))
      /\ r = <<"6","5","5","3","5">> => outcome = Some(Ok(65535))
      /\ (IsDecimal(r) /\ DecimalValue(r) <= 65535) => outcome = Some(Ok(DecimalValue(r)))
      /\ (IsDecimal(r) /\ DecimalValue(r) >= 65536) => outcome = Some(Err(NoPortMsg))
      /\ (Len(r) > 0 /\ r[1] = "-") => outcome = Some(Err(NoPortMsg))
      /\ r = <<>> => outcome = Some(Err(NoPortMsg))

\* The worker announced port 65536 after a line on its standard error; the
\* line was consumed and refused.
C19_Witness ==
  /\ Len(stream) = 2
  /\ stream[1].kind = "Stderr"
  /\ stream[2] = StdoutEvent(Marker65536)
  /\ StoppedAtMarker(2)
  /\ outcome = Some(Err(NoPortMsg))

====
